---- MODULE Spec2Model ----
(***************************************************************************)
(* A model of the fake-news detector: label encoding, the classifier and   *)
(* its two prediction paths, the LIME-based explanation pipeline, the      *)
(* /api/explain handler and the text report.                               *)
(*                                                                         *)
(* Texts are sequences of tokens.  Probabilities are integers in units of  *)
(* 1/Scale, so a probability row sums to Scale when it sums to 1.0.        *)
(* Python indices are 0-based; sequences here are 1-based, so the class    *)
(* with Python index k is CLASS_NAMES[k + 1].                              *)
(***************************************************************************)
EXTENDS Integers, Sequences, FiniteSets, TLC

VARIABLES
    detector,      \* the FakeNewsDetector object (pipeline.py)
    random_state,  \* state of the LimeTextExplainer's RandomState
    disk,          \* the saved model directory read by load()
    last           \* what the most recent call returned or raised

vars == <<detector, random_state, disk, last>>

-----------------------------------------------------------------------------
(* Bounds of the model *)

NumWords == 2      \* distinct words that may occur in a text
MaxDocLen == 2     \* tokens in a text
MaxTopK == 3       \* largest num_features requested
MaxBatch == 2      \* texts in one batch call
NumSamples == 3    \* stands for LimeExplainer.num_samples
Scale == 10        \* probability resolution: 1.0 is Scale units

-----------------------------------------------------------------------------
(* Program constants *)

CLASS_NAMES == <<"Real", "Fake">>
DefaultNumFeatures == 10
Seed == 42
MinTextLen == 10
MaxApiBatch == 100
ExplainLabel == 1

None == "None"

-----------------------------------------------------------------------------
(* Texts *)

\* A token is a word (1..NumWords), a run of punctuation (0) or a run of
\* whitespace (-1).
WS == -1
Punct == 0
Words == 1..NumWords
Tokens == {WS, Punct} \cup Words

RECURSIVE SeqsUpTo(_, _)
SeqsUpTo(S, n) ==
    IF n = 0 THEN {<<>>}
    ELSE LET shorter == SeqsUpTo(S, n - 1)
         IN shorter \cup {Append(s, x) : s \in {t \in shorter : Len(t) = n - 1}, x \in S}

Docs == SeqsUpTo(Tokens, MaxDocLen)
WordDocs == SeqsUpTo(Words, MaxDocLen)

IsWord(t) == t \in Words

\* len(text): every token is six characters, tokens are joined by one space.
CharLen(doc) == IF Len(doc) = 0 THEN 0 ELSE 6 * Len(doc) + (Len(doc) - 1)

\* str.strip(): leading and trailing whitespace removed.
RECURSIVE LStrip(_)
LStrip(doc) ==
    IF doc # <<>> /\ Head(doc) = WS THEN LStrip(Tail(doc)) ELSE doc

RECURSIVE RStrip(_)
RStrip(doc) ==
    IF doc # <<>> /\ doc[Len(doc)] = WS
    THEN RStrip(SubSeq(doc, 1, Len(doc) - 1)) ELSE doc

Strip(doc) == RStrip(LStrip(doc))

\* TextPreprocessor.preprocess: punctuation and whitespace are dropped, the
\* word tokens are kept in order.
Preprocess(doc) == SelectSeq(doc, IsWord)

\* preprocess_batch: [self.preprocess(text) for text in texts]
PreprocessBatch(texts) == [i \in 1..Len(texts) |-> Preprocess(texts[i])]

RECURSIVE SumSeq(_)
SumSeq(row) == IF row = <<>> THEN 0 ELSE Head(row) + SumSeq(Tail(row))

Abs(x) == IF x < 0 THEN -x ELSE x
Min(a, b) == IF a < b THEN a ELSE b
Range(s) == {s[i] : i \in 1..Len(s)}

-----------------------------------------------------------------------------
(* Labels: DataLoader.encode_labels *)

\* The label columns of the datasets the detector is trained on: WELFake's
\* 0/1 and the sample dataset's FAKE/REAL.
LabelVocabularies == {{"0", "1"}, {"FAKE", "REAL"}}

\* The class a dataset label stands for (0 = Real, 1 = Fake).
LabelClass(l) == IF l \in {"1", "FAKE"} THEN "Fake" ELSE "Real"

\* Python's order on the label values: code-point order.
LabelOrder == <<"0", "1", "FAKE", "REAL">>
LabelRank(l) == CHOOSE i \in 1..Len(LabelOrder) : LabelOrder[i] = l

\* sorted(unique_labels)
RECURSIVE Sorted(_)
Sorted(S) ==
    IF S = {} THEN <<>>
    ELSE LET m == CHOOSE x \in S : \A y \in S : LabelRank(x) <= LabelRank(y)
         IN <<m>> \o Sorted(S \ {m})

\* {label: idx for idx, label in enumerate(sorted(unique_labels))}
encode_labels(labels) ==
    LET order == Sorted(labels)
    IN [l \in labels |-> (CHOOSE i \in 1..Len(order) : order[i] = l) - 1]

-----------------------------------------------------------------------------
(* The classifier: a fitted estimator behind ModelTrainer *)

Half == Scale \div 2

\* The training texts: word 1 occurs in the texts labelled fake, word 2 in
\* the texts labelled real; other words occur in no training text.
WordCue(w) == IF w = 1 THEN "Fake" ELSE IF w = 2 THEN "Real" ELSE None

\* TfidfVectorizer.fit: the vocabulary of the training texts.
FittedVocabulary == {w \in Words : WordCue(w) # None}

\* The column of a word of the vocabulary: its rank among the sorted terms.
Column(vocab, w) == Cardinality({v \in vocab : v <= w})

\* vectorizer.transform: the columns of the known words of each
\* (preprocessed) text.  With the vocabulary of the training texts the column
\* of a word is the word's number.
Transform(fx, texts) ==
    [i \in 1..Len(texts) |->
        {Column(fx.vocab, w) : w \in {v \in Range(texts[i]) : v \in fx.vocab}}]

\* estimator.predict(X) and estimator.predict_proba(X) raise ValueError for
\* a matrix whose number of columns is not the number the estimator was
\* fitted with.
FeatureCountMismatch(fx) == Cardinality(fx.vocab) # Cardinality(FittedVocabulary)

ModelTypes == {"logistic_regression", "random_forest", "svm", "naive_bayes"}

\* model.fit(X, y): the weight each word gets toward the class encoded 1.
Fit(label_mapping) ==
    [w \in Words |->
        IF WordCue(w) = None THEN 0
        ELSE LET l == CHOOSE x \in DOMAIN label_mapping : LabelClass(x) = WordCue(w)
             IN IF label_mapping[l] = 1 THEN 1 ELSE -1]

\* SVC(probability=True) calibrates predict_proba by Platt scaling fitted
\* with cross-validation, separately from the decision function predict
\* uses; the other estimators derive both from one score.
PlattShifts(model_type) == IF model_type = "svm" THEN {-3, 0, 3} ELSE {0}

NoModel == [set |-> FALSE]

Estimator(model_type, coef, has_proba, platt, defect) ==
    [set |-> TRUE, model_type |-> model_type, is_trained |-> TRUE,
     coef |-> coef, has_proba |-> has_proba, platt |-> platt,
     defect |-> defect]

Score(m, x) ==
    SumSeq([w \in 1..NumWords |-> IF w \in x THEN m.coef[w] ELSE 0])

Clamp(v) == IF v < 0 THEN 0 ELSE IF v > Scale THEN Scale ELSE v

\* estimator.predict(X): the decision function's sign.
EstimatorPredict(m, X) ==
    [i \in 1..Len(X) |-> IF Score(m, X[i]) > 0 THEN 1 ELSE 0]

Proba1(m, x) == Clamp(Half + 2 * Score(m, x) + m.platt)

\* estimator.predict_proba(X).  A well-formed estimator returns one
\* normalised row per input; an estimator unpickled from a foreign file may
\* return rows that do not sum to 1 or too few rows.
EstimatorPredictProba(m, X) ==
    LET good == [i \in 1..Len(X) |-> <<Scale - Proba1(m, X[i]), Proba1(m, X[i])>>]
        bad == [i \in 1..Len(X) |-> <<Scale - Proba1(m, X[i]), Proba1(m, X[i]) + 1>>]
    IN CASE m.defect = "unnormalised" -> bad
         [] m.defect = "short" -> SubSeq(good, 1, Len(X) - 1)
         [] OTHER -> good

Ok(v) == [err |-> None, val |-> v]
Raise(e) == [err |-> e, val |-> <<>>]

\* np.zeros((n, n_classes)); proba[i, int(pred)] = 1.0
OneHotRows(predictions, n_classes) ==
    IF \E i \in 1..Len(predictions) : predictions[i] >= n_classes
    THEN Raise("IndexError")
    ELSE Ok([i \in 1..Len(predictions) |->
                [c \in 1..n_classes |-> IF c = predictions[i] + 1 THEN Scale ELSE 0]])

ModelTrainer_predict(trainer, X) ==
    IF ~trainer.is_trained THEN Raise("ValueError")
    ELSE Ok(EstimatorPredict(trainer, X))

\* ModelTrainer.predict_proba: without a native predict_proba the number of
\* columns is the number of distinct labels predicted for this batch.
ModelTrainer_predict_proba(trainer, X) ==
    IF ~trainer.is_trained THEN Raise("ValueError")
    ELSE IF trainer.has_proba THEN Ok(EstimatorPredictProba(trainer, X))
    ELSE LET predictions == EstimatorPredict(trainer, X)
             n_classes == Cardinality(Range(predictions))
         IN OneHotRows(predictions, n_classes)

\* TextExplainerPipeline._predict_fn
TextExplainerPipeline_predict_fn(pipe, texts) ==
    LET X == Transform(pipe.vectorizer, PreprocessBatch(texts))
    IN IF FeatureCountMismatch(pipe.vectorizer) THEN Raise("ValueError")
       ELSE IF pipe.model.has_proba THEN Ok(EstimatorPredictProba(pipe.model, X))
       ELSE OneHotRows(EstimatorPredict(pipe.model, X), Len(pipe.class_names))

RECURSIVE MaxOf(_)
MaxOf(row) ==
    IF Len(row) = 1 THEN row[1]
    ELSE LET m == MaxOf(Tail(row)) IN IF row[1] >= m THEN row[1] ELSE m

\* A variant of argmax that returns the last index holding the maximum;
\* it differs from np.argmax on a row with equal entries.
ArgMaxLast(row) == (CHOOSE i \in 1..Len(row) :
                       /\ row[i] = MaxOf(row)
                       /\ \A j \in (i + 1)..Len(row) : row[j] # MaxOf(row)) - 1

\* np.argmax: the first index (0-based) holding the maximum.
ArgMax(row) == (CHOOSE i \in 1..Len(row) :
                   /\ row[i] = MaxOf(row)
                   /\ \A j \in 1..(i - 1) : row[j] # MaxOf(row)) - 1

\* dict(zip(names, row)): pairs up to the shorter of the two.
ZipDict(names, row) ==
    [n \in {names[i] : i \in 1..Min(Len(names), Len(row))} |->
        row[CHOOSE i \in 1..Len(names) : names[i] = n]]

-----------------------------------------------------------------------------
(* LIME: LimeTextExplainer(class_names, random_state=42).explain_instance *)

\* The generator behind random_state: one step per number drawn.  The
\* state lives in the explainer object and is never reset between calls.
RngNext(s) == (2 * s) % 13
SeedState == Seed % 13

RECURSIVE RngAfter(_, _)
RngAfter(s, k) == IF k = 0 THEN s ELSE RngAfter(RngNext(s), k - 1)

\* IndexedString(text, bow=True): the distinct words in order of first
\* occurrence; feature j is the j-th of them.
RECURSIVE Vocabulary(_)
Vocabulary(doc) ==
    IF doc = <<>> THEN <<>>
    ELSE LET init == Vocabulary(SubSeq(doc, 1, Len(doc) - 1))
             t == doc[Len(doc)]
         IN IF IsWord(t) /\ t \notin Range(init) THEN Append(init, t) ELSE init

\* random_state.choice(range(d), size, replace=False) for the number r drawn.
SubsetCode(S, d) ==
    SumSeq([i \in 1..d |-> IF i \in S THEN 2 ^ (i - 1) ELSE 0])

Choice(d, size, r) ==
    LET C == {S \in SUBSET (1..d) : Cardinality(S) = size}
        k == r % Cardinality(C)
    IN CHOOSE S \in C :
          Cardinality({T \in C : SubsetCode(T, d) < SubsetCode(S, d)}) = k

\* A variant of the sampler that perturbs every sample, the first one
\* included.
SampleMasksAllPerturbed(rs, d, num_samples) ==
    LET n == num_samples - 1
        size(i) == 1 + (RngAfter(rs, i) % d)
        inactive(i) == Choice(d, size(i), RngAfter(rs, n + i))
    IN [i \in 1..num_samples |->
           (1..d) \ inactive(IF i = 1 THEN 1 ELSE i - 1)]

\* __data_labels_distances: sample 1 is the text itself (all features
\* kept); for each further sample a size in 1..d is drawn (randint), all
\* sizes first, and then that many features are chosen to be removed.
\* A mask is the set of features kept.
SampleMasks(rs, d, num_samples) ==
    LET n == num_samples - 1
        size(i) == 1 + (RngAfter(rs, i) % d)
        inactive(i) == Choice(d, size(i), RngAfter(rs, n + i))
    IN [i \in 1..num_samples |->
           IF i = 1 THEN 1..d ELSE (1..d) \ inactive(i - 1)]

\* indexed_string.inverse_removing(inactive): every occurrence of a removed
\* word is dropped, all other tokens stay.
InverseRemoving(doc, vocab, mask) ==
    LET keep(t) == ~IsWord(t) \/ (\E j \in mask : vocab[j] = t)
    IN SelectSeq(doc, keep)

\* A variant of the kernel that grows with the number of removed features.
KernelWeightByRemoved(mask, d) == 1 + (d - Cardinality(mask))

\* The kernel weight of a sample: the exponential kernel of the cosine
\* distance between the sample's mask and the all-ones mask, which is the
\* larger the fewer features are removed.
KernelWeight(mask, d) == 1 + Cardinality(mask)

\* A variant that computes one weight more than there are samples.
SampleWeightsOneMore(masks, d) ==
    [i \in 1..(Len(masks) + 1) |->
        KernelWeight(masks[IF i > Len(masks) THEN 1 ELSE i], d)]

\* weights = kernel_fn(distances): one weight per sample.
SampleWeights(masks, d) ==
    [i \in 1..Len(masks) |-> KernelWeight(masks[i], d)]

\* The local surrogate's coefficient of feature j for the probability of
\* class `label`: the weighted covariance, over the samples, between the
\* presence of the feature and that probability (zero when the classifier
\* output does not vary with the feature).
Coefficient(j, masks, y, w) ==
    LET n == Len(masks)
        m(i) == IF j \in masks[i] THEN 1 ELSE 0
        sw == SumSeq([i \in 1..n |-> w[i]])
        swm == SumSeq([i \in 1..n |-> w[i] * m(i)])
        swy == SumSeq([i \in 1..n |-> w[i] * y[i]])
        swmy == SumSeq([i \in 1..n |-> w[i] * m(i) * y[i]])
    IN sw * swmy - swm * swy

\* A variant of the sort that puts, among pairs of equal absolute weight,
\* the one of the higher feature index first.
RECURSIVE SortedByAbsTieHigh(_)
SortedByAbsTieHigh(pairs) ==
    IF pairs = <<>> THEN <<>>
    ELSE LET top == CHOOSE i \in 1..Len(pairs) :
                      \A k \in 1..Len(pairs) :
                         \/ Abs(pairs[i][2]) > Abs(pairs[k][2])
                         \/ /\ Abs(pairs[i][2]) = Abs(pairs[k][2])
                            /\ pairs[i][1] >= pairs[k][1]
             rest == [k \in 1..(Len(pairs) - 1) |->
                         IF k < top THEN pairs[k] ELSE pairs[k + 1]]
         IN <<pairs[top]>> \o SortedByAbsTieHigh(rest)

\* sorted(pairs, key=lambda x: np.abs(x[1]), reverse=True): a stable sort,
\* pairs with equal keys keep their order.
RECURSIVE SortedByAbs(_)
SortedByAbs(pairs) ==
    IF pairs = <<>> THEN <<>>
    ELSE LET top == CHOOSE i \in 1..Len(pairs) :
                      /\ \A k \in 1..Len(pairs) : Abs(pairs[i][2]) >= Abs(pairs[k][2])
                      /\ \A k \in 1..(i - 1) : Abs(pairs[k][2]) < Abs(pairs[i][2])
             rest == [k \in 1..(Len(pairs) - 1) |->
                         IF k < top THEN pairs[k] ELSE pairs[k + 1]]
         IN <<pairs[top]>> \o SortedByAbs(rest)

\* A variant of feature selection that keeps every feature, whatever
\* num_features is.
UsedFeaturesAll(coef, d, num_features) ==
    SortedByAbs([j \in 1..d |-> <<j, coef[j]>>])

\* Feature selection: the num_features features of largest weight, at most
\* all d of them.
UsedFeatures(coef, d, num_features) ==
    LET all == SortedByAbs([j \in 1..d |-> <<j, coef[j]>>])
    IN SubSeq(all, 1, Min(num_features, d))

\* explainer.explain_instance(text, classifier_fn, num_features, num_samples)
\* for labels=(1,).  Returns the explanation and the generator's new state.
LimeTextExplainer_explain_instance(rs, text, pipe, num_features, num_samples) ==
    LET vocab == Vocabulary(text)
        d == Len(vocab)
    IN IF d = 0 THEN [err |-> "ValueError", rs |-> rs]
       ELSE
       LET masks == SampleMasks(rs, d, num_samples)
           texts == [i \in 1..num_samples |-> InverseRemoving(text, vocab, masks[i])]
           labels == TextExplainerPipeline_predict_fn(pipe, texts)
           rs2 == RngAfter(rs, 2 * (num_samples - 1))
       IN IF labels.err # None THEN [err |-> labels.err, rs |-> rs2]
          ELSE IF Len(labels.val) # num_samples THEN [err |-> "ValueError", rs |-> rs2]
          ELSE
          LET w == SampleWeights(masks, d)
              ys(label) == [i \in 1..num_samples |-> labels.val[i][label + 1]]
              coef(label) == [j \in 1..d |-> Coefficient(j, masks, ys(label), w)]
              exp(label) == SortedByAbs(UsedFeatures(coef(label), d, num_features))
          IN [err |-> None, rs |-> rs2, vocab |-> vocab, masks |-> masks,
              texts |-> texts, labels |-> labels.val, weights |-> w,
              predict_proba |-> labels.val[1],
              local_exp |-> [l \in {1} |-> exp(l)]]

-----------------------------------------------------------------------------
(* explainability.py: LimeExplainer, LimeExplanation, TextExplainerPipeline *)

\* LimeExplainer.explain_instance: `num_features or self.num_features`.
LimeExplainer_explain_instance(rs, text, pipe, num_features) ==
    LET nf == IF num_features = 0 THEN DefaultNumFeatures ELSE num_features
        e == LimeTextExplainer_explain_instance(rs, text, pipe, nf, NumSamples)
    IN IF e.err # None THEN e
       ELSE [e EXCEPT !.err = None] @@ [text |-> text, class_names |-> pipe.class_names]

\* explanation.as_list(label): the (word, weight) pairs of local_exp[label],
\* in its order.
as_list(exp, label) ==
    [i \in 1..Len(exp.local_exp[label]) |->
        <<exp.vocab[exp.local_exp[label][i][1]], exp.local_exp[label][i][2]>>]

LimeExplanation_get_word_importance(exp, label) == as_list(exp, label)

\* A variant of the loop body that skips a text whose explanation raises
\* and goes on with the next.
BatchAppendSkipping(acc, e) ==
    IF e.err # None THEN [acc EXCEPT !.rs = e.rs]
    ELSE [err |-> None, rs |-> e.rs, explanations |-> Append(acc.explanations, e)]

\* explanations.append(LimeExplanation(...)) after one explain_instance call
\* of the batch loop; an exception in the call ends the loop.
BatchAppend(acc, e) ==
    IF e.err # None THEN [err |-> e.err, rs |-> e.rs, explanations |-> <<>>]
    ELSE [err |-> None, rs |-> e.rs, explanations |-> Append(acc.explanations, e)]

\* LimeExplainer.explain_batch: one explain_instance call per text, in
\* order, all on the one explainer object.
RECURSIVE BatchLoop(_, _, _, _)
BatchLoop(acc, texts, pipe, num_features) ==
    IF texts = <<>> \/ acc.err # None THEN acc
    ELSE BatchLoop(BatchAppend(acc, LimeExplainer_explain_instance(
                                        acc.rs, Head(texts), pipe, num_features)),
                   Tail(texts), pipe, num_features)

LimeExplainer_explain_batch(rs, texts, pipe, num_features) ==
    BatchLoop([err |-> None, rs |-> rs, explanations |-> <<>>],
              texts, pipe, num_features)

\* The dict predict_and_explain returns, from the probability row of the
\* text and its LIME explanation.
ExplainResult(pipe, text, probs, explanation) ==
    IF explanation.err # None THEN [err |-> explanation.err, rs |-> explanation.rs]
    ELSE [err |-> None, rs |-> explanation.rs,
          text |-> text,
          predicted_class |-> pipe.class_names[ArgMax(probs) + 1],
          confidence |-> MaxOf(probs),
          probabilities |-> ZipDict(pipe.class_names, probs),
          word_importance |->
              LimeExplanation_get_word_importance(explanation, ExplainLabel),
          explanation |-> explanation]

\* TextExplainerPipeline.predict_and_explain
predict_and_explain(rs, pipe, text, num_features) ==
    LET p == TextExplainerPipeline_predict_fn(pipe, <<text>>)
    IN IF p.err # None THEN [err |-> p.err, rs |-> rs]
       ELSE IF Len(p.val) = 0 THEN [err |-> "IndexError", rs |-> rs]
       ELSE ExplainResult(pipe, text, p.val[1],
                LimeExplainer_explain_instance(rs, text, pipe, num_features))

\* generate_report: direction = "-> Real" if importance > 0 else "-> Fake"
ReportDirection(importance) == IF importance > 0 THEN "Real" ELSE "Fake"

ReportLines(word_importance) ==
    [i \in 1..Len(word_importance) |->
        [word |-> word_importance[i][1], importance |-> word_importance[i][2],
         direction |-> ReportDirection(word_importance[i][2])]]

-----------------------------------------------------------------------------
(* pipeline.py: FakeNewsDetector *)

NoneValue == [set |-> FALSE]

FreshDetector(model_type) ==
    [model_type |-> model_type,
     feature_extractor |-> [is_fitted |-> FALSE, vocab |-> {}],
     model |-> NoModel,
     explainer_pipeline |-> NoneValue,
     label_mapping |-> NoneValue,
     is_trained |-> FALSE,
     training_history |-> NoneValue]

\* TextExplainerPipeline(model=self.model.model, vectorizer=..., class_names=CLASS_NAMES).
\* The pipeline holds the vectorizer object of the feature extractor, not a
\* copy: `shared` says that the two are still one object.
TextExplainerPipeline(model, vectorizer) ==
    [set |-> TRUE, model |-> model, vectorizer |-> vectorizer,
     class_names |-> CLASS_NAMES, shared |-> TRUE]

\* TfidfFeatureExtractor.transform
FeatureExtractor_transform(fx, texts) ==
    IF ~fx.is_fitted THEN Raise("ValueError") ELSE Ok(Transform(fx, texts))

FakeNewsDetector_predict(self, texts) ==
    IF ~self.is_trained THEN Raise("ValueError")
    ELSE LET features == FeatureExtractor_transform(self.feature_extractor,
                                                    PreprocessBatch(texts))
         IN IF features.err # None THEN features
            ELSE IF self.model.is_trained
                    /\ FeatureCountMismatch(self.feature_extractor)
            THEN Raise("ValueError")
            ELSE ModelTrainer_predict(self.model, features.val)

FakeNewsDetector_predict_proba(self, texts) ==
    IF ~self.is_trained THEN Raise("ValueError")
    ELSE LET features == FeatureExtractor_transform(self.feature_extractor,
                                                    PreprocessBatch(texts))
         IN IF features.err # None THEN features
            ELSE IF self.model.is_trained
                    /\ FeatureCountMismatch(self.feature_extractor)
            THEN Raise("ValueError")
            ELSE ModelTrainer_predict_proba(self.model, features.val)

FakeNewsDetector_classify(self, text) ==
    LET predictions == FakeNewsDetector_predict(self, <<text>>)
        proba == FakeNewsDetector_predict_proba(self, <<text>>)
    IN IF predictions.err # None THEN [err |-> predictions.err]
       ELSE IF proba.err # None THEN [err |-> proba.err]
       ELSE IF Len(proba.val) = 0 THEN [err |-> "IndexError"]
       ELSE LET probabilities == proba.val[1]
            IN [err |-> None,
                text |-> text,
                prediction |-> CLASS_NAMES[predictions.val[1] + 1],
                confidence |-> MaxOf(probabilities),
                probabilities |-> ZipDict(CLASS_NAMES, probabilities)]

FakeNewsDetector_explain(self, rs, text, num_features) ==
    IF ~self.explainer_pipeline.set THEN [err |-> "ValueError", rs |-> rs]
    ELSE predict_and_explain(rs, self.explainer_pipeline, text, num_features)

\* fit_transform of the detector's feature extractor: the vectorizer object
\* is fitted again in place, so a pipeline that holds the same object sees
\* the new vocabulary too.
RefitInPlace(self, vocab) ==
    [self EXCEPT
        !.feature_extractor = [is_fitted |-> TRUE, vocab |-> vocab],
        !.explainer_pipeline =
            IF @.set /\ @.shared
            THEN [@ EXCEPT !.vectorizer = [is_fitted |-> TRUE, vocab |-> vocab]]
            ELSE @]

\* ModelTrainer(model_type) before train: is_trained is False.
UntrainedTrainer(model_type) ==
    [set |-> TRUE, model_type |-> model_type, is_trained |-> FALSE,
     coef |-> [w \in Words |-> 0], has_proba |-> TRUE, platt |-> 0,
     defect |-> None]

-----------------------------------------------------------------------------
(* api/ml_api.py: the module's detector *)

\* `detector = None`, the module global before load_model has run: there is
\* no detector object, and every attribute access raises AttributeError.
NoDetector == FreshDetector(None)

\* detector.classify(text) on the module global
detector_classify(self, text) ==
    IF self = NoDetector THEN [err |-> "AttributeError"]
    ELSE FakeNewsDetector_classify(self, text)

\* detector.explain(text, num_features) on the module global
detector_explain(self, rs, text, num_features) ==
    IF self = NoDetector THEN [err |-> "AttributeError", rs |-> rs]
    ELSE FakeNewsDetector_explain(self, rs, text, num_features)

\* A variant of the health check that tests only that a detector exists.
HealthNotNone(self) == self # NoDetector

\* /api/health: 'model_loaded': detector is not None and detector.is_trained
health_check(self) == self # NoDetector /\ self.is_trained

-----------------------------------------------------------------------------
(* api/ml_api.py: /api/explain *)

ApiDirection(score) == IF score > 0 THEN "Real" ELSE "Fake"

\* The formatted word importance of the response; round(score, 4) leaves a
\* score of this resolution as it is.
ApiExplanation(word_importance) ==
    [i \in 1..Len(word_importance) |->
        [word |-> word_importance[i][1], score |-> word_importance[i][2],
         direction |-> ApiDirection(word_importance[i][2])]]

-----------------------------------------------------------------------------
(* api/ml_api.py: /api/classify and /api/batch-classify *)

\* The JSON response of /api/classify for the result c of detector.classify;
\* round(x, 4) leaves a probability of this resolution as it is.
ClassifyResponse(text, c) ==
    IF c.err # None
    THEN [op |-> "api_classify", status |-> 500, success |-> FALSE,
          err |-> c.err, text |-> text, calls |-> 1]
    ELSE [op |-> "api_classify", status |-> 200, success |-> TRUE,
          err |-> None, text |-> text, calls |-> 1,
          prediction |-> c.prediction,
          confidence |-> c.confidence,
          probabilities |-> c.probabilities]

\* An item of the 'texts' array: a JSON string, or a value of another type.
StrItem(text) == [is_str |-> TRUE, text |-> text]
NotAString == [is_str |-> FALSE, text |-> <<>>]

\* The test of the batch loop: the item is a string of at least 10
\* characters (the string is not stripped).
ItemAccepted(item) == item.is_str /\ CharLen(item.text) >= MinTextLen

\* The entry appended for an item that is not classified.
InvalidEntry(item) ==
    [text |-> item.text, prediction |-> NoneValue, confidence |-> NoneValue,
     error |-> "Invalid or too short text"]

\* The entry appended for the result c of detector.classify(text).
ClassifiedEntry(text, c) ==
    [text |-> text,
     prediction |-> [set |-> TRUE, val |-> c.prediction],
     confidence |-> [set |-> TRUE, val |-> c.confidence]]

\* A variant of the loop body that appends nothing for an item that is not
\* classified.
BatchClassifyAppendSkipping(acc, item, c) ==
    IF ~ItemAccepted(item) THEN acc
    ELSE IF c.err # None
    THEN [err |-> c.err, results |-> <<>>, calls |-> acc.calls + 1]
    ELSE [acc EXCEPT !.results = Append(@, ClassifiedEntry(item.text, c)),
                     !.calls = @ + 1]

\* One turn of the batch loop, for the result c of detector.classify on an
\* accepted item: an exception leaves the loop.
BatchClassifyAppend(acc, item, c) ==
    IF ~ItemAccepted(item)
    THEN [acc EXCEPT !.results = Append(@, InvalidEntry(item))]
    ELSE IF c.err # None
    THEN [err |-> c.err, results |-> <<>>, calls |-> acc.calls + 1]
    ELSE [acc EXCEPT !.results = Append(@, ClassifiedEntry(item.text, c)),
                     !.calls = @ + 1]

\* for text in texts: ... of batch_classify.
RECURSIVE BatchClassifyLoop(_, _, _)
BatchClassifyLoop(acc, texts, self) ==
    IF texts = <<>> \/ acc.err # None THEN acc
    ELSE BatchClassifyLoop(
             BatchClassifyAppend(acc, Head(texts),
                 IF ItemAccepted(Head(texts))
                 THEN detector_classify(self, Head(texts).text)
                 ELSE [err |-> None]),
             Tail(texts), self)

\* The JSON response of /api/batch-classify for the outcome b of the loop.
BatchClassifyResponse(body, b) ==
    IF b.err # None
    THEN [op |-> "api_batch_classify", status |-> 500, success |-> FALSE,
          err |-> b.err, body |-> body, calls |-> b.calls]
    ELSE [op |-> "api_batch_classify", status |-> 200, success |-> TRUE,
          err |-> None, body |-> body, calls |-> b.calls,
          results |-> b.results, total |-> Len(b.results)]

-----------------------------------------------------------------------------
(* The saved model directory *)

\* The files of a model directory.
Files == {"model.pkl", "vectorizer.pkl", "metadata.json"}

NoArtifact == [set |-> FALSE, files |-> {}]

FittedExtractor == [is_fitted |-> TRUE, vocab |-> FittedVocabulary]

\* str(k) of a label value.  The values "0" and "1" stand for the integers
\* of the WELFake label column; their str() is the string '0' or '1',
\* written "'0'" and "'1'" here.  The other label values are strings.
Str(k) == IF k = "0" THEN "'0'" ELSE IF k = "1" THEN "'1'" ELSE k

\* {str(k): int(v) for k, v in self.label_mapping.items()} if
\* self.label_mapping else None
SavedMapping(label_mapping) ==
    IF ~label_mapping.set THEN NoneValue
    ELSE [set |-> TRUE,
          map |-> [s \in {Str(k) : k \in DOMAIN label_mapping.map} |->
                      label_mapping.map[CHOOSE k \in DOMAIN label_mapping.map :
                                           Str(k) = s]]]

\* A complete model directory: model.pkl, vectorizer.pkl and metadata.json.
Artifact(model, label_mapping) ==
    [set |-> TRUE, files |-> Files,
     model |-> model, feature_extractor |-> FittedExtractor,
     model_type |-> model.model_type,
     label_mapping |-> SavedMapping([set |-> TRUE, map |-> label_mapping]),
     training_history |-> [set |-> TRUE, model_type |-> model.model_type]]

\* A variant of save without the check of is_trained.
FakeNewsDetector_saveUnchecked(self, dir) ==
    [err |-> None,
     dir |-> [set |-> TRUE, files |-> Files,
              model |-> self.model,
              feature_extractor |-> self.feature_extractor,
              model_type |-> self.model_type,
              label_mapping |-> SavedMapping(self.label_mapping),
              training_history |-> self.training_history]]

\* FakeNewsDetector.save: ValueError without a trained model; otherwise the
\* three files are written from the detector's current fields.
FakeNewsDetector_save(self, dir) ==
    IF ~self.is_trained THEN [err |-> "ValueError", dir |-> dir]
    ELSE [err |-> None,
          dir |-> [set |-> TRUE, files |-> Files,
                   model |-> self.model,
                   feature_extractor |-> self.feature_extractor,
                   model_type |-> self.model_type,
                   label_mapping |-> SavedMapping(self.label_mapping),
                   training_history |-> self.training_history]]

\* self.feature_extractor.load replaces the extractor's vectorizer object;
\* a pipeline built before keeps the object it was given.
Unshared(pipeline) ==
    IF pipeline.set THEN [pipeline EXCEPT !.shared = FALSE] ELSE pipeline

\* FakeNewsDetector.load, step by step: each file is opened when its step
\* is reached, and what the earlier steps assigned stays assigned when a
\* later one raises.
FakeNewsDetector_load(self, dir) ==
    IF "model.pkl" \notin dir.files
    THEN [err |-> "FileNotFoundError", self |-> self]
    ELSE IF "vectorizer.pkl" \notin dir.files
    THEN [err |-> "FileNotFoundError",
          self |-> [self EXCEPT !.model = dir.model]]
    ELSE IF "metadata.json" \notin dir.files
    THEN [err |-> "FileNotFoundError",
          self |-> [self EXCEPT !.model = dir.model,
                                !.feature_extractor = dir.feature_extractor,
                                !.explainer_pipeline = Unshared(@)]]
    ELSE [err |-> None,
          self |-> [self EXCEPT
                       !.model = dir.model,
                       !.feature_extractor = dir.feature_extractor,
                       !.model_type = dir.model_type,
                       !.label_mapping = dir.label_mapping,
                       !.training_history = dir.training_history,
                       !.explainer_pipeline =
                           TextExplainerPipeline(dir.model, dir.feature_extractor),
                       !.is_trained = TRUE]]

\* Model directories written outside FakeNewsDetector.train, through
\* ModelTrainer.save or pickle: an SVC fitted with probability=False (no
\* predict_proba attribute), and estimators whose predict_proba is malformed.
ForeignModels ==
    LET coef == Fit(encode_labels({"0", "1"}))
    IN {Estimator("svm", coef, FALSE, 0, None),
        Estimator("logistic_regression", coef, TRUE, 0, "unnormalised"),
        Estimator("logistic_regression", coef, TRUE, 0, "short")}

DiskImages ==
    {NoArtifact} \cup {Artifact(m, encode_labels({"0", "1"})) : m \in ForeignModels}

-----------------------------------------------------------------------------
(* Inputs *)

TopKs == 0..MaxTopK

\* The texts of a batch call: the one-word texts and the text of both cue
\* words.
BatchTexts == {<<w>> : w \in Words} \cup {<<1, 2>>}
Batches == {b \in SeqsUpTo(BatchTexts, MaxBatch) : Len(b) >= 1}

\* The 'text' values of a request to /api/classify or /api/explain: texts
\* of words, the same with whitespace before or after, and texts of
\* punctuation only.
ApiRaws ==
    WordDocs
    \cup {<<WS>> \o d : d \in {w \in WordDocs : Len(w) < MaxDocLen}}
    \cup {d \o <<WS>> : d \in {w \in WordDocs : Len(w) \in 1..(MaxDocLen - 1)}}
    \cup {[i \in 1..n |-> Punct] : n \in 1..MaxDocLen}

\* The items of a 'texts' array: a value that is no string, a short string,
\* a string that is long enough only with its leading whitespace, and
\* strings of two words.
ApiItems ==
    {NotAString} \cup {StrItem(t) : t \in {<<1>>, <<WS, 1>>, <<1, 2>>, <<2, 2>>}}

\* The bodies of a /api/batch-classify request: no 'texts' field, a 'texts'
\* value that is no array, arrays of up to MaxBatch items, and arrays of
\* MaxApiBatch and of MaxApiBatch + 1 items.
ApiBatchBodies ==
    {[has_texts |-> FALSE, is_list |-> FALSE, texts |-> <<>>],
     [has_texts |-> TRUE, is_list |-> FALSE, texts |-> <<>>]}
    \cup {[has_texts |-> TRUE, is_list |-> TRUE, texts |-> t] :
             t \in SeqsUpTo(ApiItems, MaxBatch)}
    \cup {[has_texts |-> TRUE, is_list |-> TRUE,
           texts |-> [i \in 1..n |-> StrItem(<<1, 2>>)]] :
             n \in {MaxApiBatch, MaxApiBatch + 1}}

-----------------------------------------------------------------------------
(* Actions *)

\* No call is pending: the caller has taken the previous result.
Idle == [op |-> "idle", err |-> None]

Init ==
    /\ detector \in {FreshDetector(mt) : mt \in ModelTypes}
    /\ random_state = SeedState
    /\ disk \in DiskImages
    /\ last = Idle

\* FakeNewsDetector.train_from_file: load_data (encode_labels), then train.
Train(labels, platt) ==
    LET mapping == encode_labels(labels)
        model == Estimator(detector.model_type, Fit(mapping), TRUE, platt, None)
    IN /\ last = Idle
       /\ detector # NoDetector
       /\ detector' = [detector EXCEPT
              !.label_mapping = [set |-> TRUE, map |-> mapping],
              !.feature_extractor = FittedExtractor,
              !.model = model,
              !.explainer_pipeline = TextExplainerPipeline(model, FittedExtractor),
              !.is_trained = TRUE,
              !.training_history = [set |-> TRUE, model_type |-> detector.model_type]]
       /\ random_state' = SeedState
       /\ last' = [op |-> "train", err |-> None, labels |-> labels]
       /\ UNCHANGED disk

\* FakeNewsDetector.load.  A completed load builds a new explainer, whose
\* generator starts from the seed.
Load ==
    /\ last = Idle
    /\ detector # NoDetector
    /\ \E r \in {FakeNewsDetector_load(detector, disk)} :
          /\ detector' = r.self
          /\ random_state' = IF r.err = None THEN SeedState ELSE random_state
          /\ last' = [op |-> "load", err |-> r.err, before |-> detector]
    /\ UNCHANGED disk

\* FakeNewsDetector.save
Save ==
    /\ last = Idle
    /\ detector # NoDetector
    /\ \E r \in {FakeNewsDetector_save(detector, disk)} :
          /\ disk' = r.dir
          /\ last' = [op |-> "save", err |-> r.err]
    /\ UNCHANGED <<detector, random_state>>

\* FakeNewsDetector.train on texts that all carry one label, with a
\* logistic regression or an SVM: the vectorizer is fitted and self.model is
\* the new ModelTrainer when estimator.fit raises ValueError.
TrainRaises ==
    /\ last = Idle
    /\ detector # NoDetector
    /\ detector.model_type \in {"logistic_regression", "svm"}
    /\ detector' = [RefitInPlace(detector, FittedVocabulary) EXCEPT
                       !.model = UntrainedTrainer(detector.model_type)]
    /\ last' = [op |-> "train", err |-> "ValueError", labels |-> {},
                before |-> detector]
    /\ UNCHANGED <<random_state, disk>>

\* FakeNewsDetector.compare_models on texts of the vocabulary vocab: the
\* detector's feature extractor is fitted on them, and the models compared
\* are new ones.
CompareModels(vocab) ==
    /\ last = Idle
    /\ detector # NoDetector
    /\ detector' = RefitInPlace(detector, vocab)
    /\ last' = [op |-> "compare_models", err |-> None, before |-> detector]
    /\ UNCHANGED <<random_state, disk>>

\* load_model of the API module: a new FakeNewsDetector becomes the module
\* global and load is called on it; an exception is caught and False
\* returned.
LoadModel ==
    /\ last = Idle
    /\ \E r \in {FakeNewsDetector_load(FreshDetector("logistic_regression"), disk)} :
          /\ detector' = r.self
          /\ random_state' = IF r.err = None THEN SeedState ELSE random_state
          /\ last' = [op |-> "load_model", err |-> None, ok |-> r.err = None]
    /\ UNCHANGED disk

\* GET /api/health
Health ==
    /\ last = Idle
    /\ last' = [op |-> "api_health", err |-> None, status |-> 200,
                model_loaded |-> health_check(detector)]
    /\ UNCHANGED <<detector, random_state, disk>>

\* A variant of classify that clears the training history of the detector.
ClassifyForgetting(text) ==
    /\ last = Idle
    /\ last' = [op |-> "classify"] @@ FakeNewsDetector_classify(detector, text)
    /\ detector' = [detector EXCEPT !.training_history = NoneValue]
    /\ UNCHANGED <<random_state, disk>>

\* FakeNewsDetector.classify
Classify(text) ==
    /\ last = Idle
    /\ detector # NoDetector
    /\ last' = [op |-> "classify"] @@ FakeNewsDetector_classify(detector, text)
    /\ UNCHANGED <<detector, random_state, disk>>

\* FakeNewsDetector.predict_proba on a batch of texts
PredictProba(texts) ==
    /\ last = Idle
    /\ last' = [op |-> "predict_proba", texts |-> texts]
                   @@ FakeNewsDetector_predict_proba(detector, texts)
    /\ UNCHANGED <<detector, random_state, disk>>

\* TextExplainerPipeline._predict_fn on a batch of texts
PredictFn(texts) ==
    /\ last = Idle
    /\ detector.explainer_pipeline.set
    /\ last' = [op |-> "predict_fn", texts |-> texts]
                   @@ TextExplainerPipeline_predict_fn(detector.explainer_pipeline, texts)
    /\ UNCHANGED <<detector, random_state, disk>>

\* A variant of the response that answers an exception of detector.explain
\* with success and no explanation.
ExplainResponseRecovering(text, num_features, r) ==
    [op |-> "api_explain", status |-> 200, success |-> TRUE,
     err |-> r.err, text |-> text, num_features |-> num_features,
     calls |-> 1, explanation |-> <<>>]

\* The JSON response of /api/explain for the result r of detector.explain.
ExplainResponse(text, num_features, r) ==
    IF r.err # None
    THEN [op |-> "api_explain", status |-> 500, success |-> FALSE,
          err |-> r.err, text |-> text, num_features |-> num_features,
          calls |-> 1]
    ELSE [op |-> "api_explain", status |-> 200, success |-> TRUE,
          err |-> None, text |-> text, num_features |-> num_features,
          calls |-> 1,
          prediction |-> r.predicted_class,
          confidence |-> r.confidence,
          probabilities |-> r.probabilities,
          explanation |-> ApiExplanation(r.word_importance),
          result |-> r]

\* POST /api/explain
ApiExplain(has_text, raw, num_features) ==
    /\ last = Idle
    /\ IF ~has_text \/ CharLen(Strip(raw)) < MinTextLen
       THEN /\ last' = [op |-> "api_explain", status |-> 400, success |-> FALSE,
                        err |-> None, calls |-> 0,
                        has_text |-> has_text, raw |-> raw]
            /\ UNCHANGED random_state
       ELSE \E r \in {detector_explain(detector, random_state, Strip(raw),
                                       num_features)} :
               /\ last' = ExplainResponse(Strip(raw), num_features, r)
               /\ random_state' = r.rs
    /\ UNCHANGED <<detector, disk>>

\* POST /api/classify
ApiClassify(has_text, raw) ==
    /\ last = Idle
    /\ IF ~has_text \/ CharLen(Strip(raw)) < MinTextLen
       THEN last' = [op |-> "api_classify", status |-> 400, success |-> FALSE,
                     err |-> None, calls |-> 0,
                     has_text |-> has_text, raw |-> raw]
       ELSE last' = ClassifyResponse(Strip(raw),
                        detector_classify(detector, Strip(raw)))
    /\ UNCHANGED <<detector, random_state, disk>>

\* A variant of the request validation without the limit on the number of
\* items.
BatchBodyRejectedNoLimit(body) ==
    \/ ~body.has_texts
    \/ ~body.is_list
    \/ Len(body.texts) = 0

\* The validation of a /api/batch-classify body: no 'texts' field, a value
\* that is no list, an empty list, a list of more than 100 items.
BatchBodyRejected(body) ==
    \/ ~body.has_texts
    \/ ~body.is_list
    \/ Len(body.texts) = 0
    \/ Len(body.texts) > MaxApiBatch

\* POST /api/batch-classify
ApiBatchClassify(body) ==
    /\ last = Idle
    /\ IF BatchBodyRejected(body)
       THEN last' = [op |-> "api_batch_classify", status |-> 400,
                     success |-> FALSE, err |-> None, calls |-> 0,
                     body |-> body]
       ELSE last' = BatchClassifyResponse(body,
                        BatchClassifyLoop(
                            [err |-> None, results |-> <<>>, calls |-> 0],
                            body.texts, detector))
    /\ UNCHANGED <<detector, random_state, disk>>

\* What generate_report prints for the result r of predict_and_explain.
Report(text, num_features, r) ==
    IF r.err # None
    THEN [op |-> "generate_report", err |-> r.err, text |-> text,
          num_features |-> num_features]
    ELSE [op |-> "generate_report", err |-> None, text |-> text,
          num_features |-> num_features,
          lines |-> ReportLines(r.word_importance),
          result |-> r]

\* TextExplainerPipeline.generate_report
GenerateReport(text, num_features) ==
    /\ last = Idle
    /\ detector.explainer_pipeline.set
    /\ \E r \in {predict_and_explain(random_state, detector.explainer_pipeline,
                                     text, num_features)} :
          /\ last' = Report(text, num_features, r)
          /\ random_state' = r.rs
    /\ UNCHANGED <<detector, disk>>

\* LimeExplainer.explain_batch on the pipeline's explainer
ExplainBatch(texts, num_features) ==
    /\ last = Idle
    /\ detector.explainer_pipeline.set
    /\ \E b \in {LimeExplainer_explain_batch(random_state, texts,
                     detector.explainer_pipeline, num_features)} :
          /\ random_state' = b.rs
          /\ last' = [op |-> "explain_batch", err |-> b.err, texts |-> texts,
                      num_features |-> num_features, rs0 |-> random_state,
                      explanations |-> b.explanations]
    /\ UNCHANGED <<detector, disk>>

\* LimeExplainer.explain_batch on an explainer whose _initialize found no
\* lime package (self.explainer is None): the first explain_instance call
\* raises RuntimeError.
ExplainBatchUninitialised(texts, num_features) ==
    /\ last = Idle
    /\ detector.explainer_pipeline.set
    /\ last' = [op |-> "explain_batch", err |-> "RuntimeError", texts |-> texts,
                num_features |-> num_features, rs0 |-> random_state,
                explanations |-> <<>>]
    /\ UNCHANGED <<detector, random_state, disk>>

\* The caller takes the result of the call; the next call can be made.
Return ==
    /\ last # Idle
    /\ last' = Idle
    /\ UNCHANGED <<detector, random_state, disk>>

Next ==
    \/ \E labels \in LabelVocabularies :
         \E platt \in PlattShifts(detector.model_type) : Train(labels, platt)
    \/ Load
    \/ \E text \in Docs : Classify(text)
    \/ \E texts \in Batches : PredictProba(texts)
    \/ \E texts \in Batches : PredictFn(texts)
    \/ \E raw \in ApiRaws, k \in TopKs \cup {DefaultNumFeatures} :
         ApiExplain(TRUE, raw, k)
    \/ ApiExplain(FALSE, <<>>, DefaultNumFeatures)
    \/ \E raw \in ApiRaws : ApiClassify(TRUE, raw)
    \/ ApiClassify(FALSE, <<>>)
    \/ \E body \in ApiBatchBodies : ApiBatchClassify(body)
    \/ \E text \in WordDocs, k \in TopKs : GenerateReport(text, k)
    \/ \E texts \in Batches, k \in {0, 1} : ExplainBatch(texts, k)
    \/ \E texts \in Batches : ExplainBatchUninitialised(texts, 0)
    \/ Return

Spec == Init /\ [][Next]_vars

-----------------------------------------------------------------------------
(* The life cycle of a detector: training, persistence, and the API's
   module global *)

\* Model directories that lack files: model.pkl alone, or model.pkl and
\* vectorizer.pkl without metadata.json.
PartialImages ==
    {[a EXCEPT !.files = fs] :
        a \in {Artifact(m, encode_labels({"0", "1"})) :
                  m \in {x \in ForeignModels : x.defect = None}},
        fs \in {{"model.pkl"}, {"model.pkl", "vectorizer.pkl"}}}

\* The vocabularies of the texts given to compare_models.
CompareVocabularies == (SUBSET Words) \ {{}}

\* The texts of the requests and calls of the life cycle: one that the API
\* rejects as too short, and two of two words.
LifecycleTexts == {<<1>>, <<1, 2>>, <<2, 2>>}

InitLifecycle ==
    /\ detector \in {NoDetector} \cup
                    {FreshDetector(mt) : mt \in {"logistic_regression", "svm"}}
    /\ random_state = SeedState
    /\ disk \in DiskImages \cup PartialImages
    /\ last = Idle

NextLifecycle ==
    \/ \E labels \in LabelVocabularies :
         \E platt \in PlattShifts(detector.model_type) : Train(labels, platt)
    \/ TrainRaises
    \/ Load
    \/ Save
    \/ \E vocab \in CompareVocabularies : CompareModels(vocab)
    \/ LoadModel
    \/ Health
    \/ \E text \in LifecycleTexts : Classify(text)
    \/ \E raw \in LifecycleTexts : ApiClassify(TRUE, raw)
    \/ \E raw \in LifecycleTexts : ApiExplain(TRUE, raw, DefaultNumFeatures)
    \/ Return

SpecLifecycle == InitLifecycle /\ [][NextLifecycle]_vars

-----------------------------------------------------------------------------
(* Properties *)

\* /api/explain answered 200 with an explanation.
ApiExplained == last.op = "api_explain" /\ last.status = 200

\* generate_report printed a report.
Reported == last.op = "generate_report" /\ last.err = None

\* The class a signed score for class index ExplainLabel pushes toward.
PushedToward(score) ==
    IF score > 0 THEN CLASS_NAMES[ExplainLabel + 1]
    ELSE CLASS_NAMES[(1 - ExplainLabel) + 1]

\* C1: every (word, score) pair of an explanation is shown with the class
\* its score pushes toward: scores are for class index 1 ('Fake'), so a
\* score > 0 is labelled 'Fake' and a score < 0 'Real', in the /api/explain
\* response and in the text report.
C1_DirectionIsClassPushedToward ==
    /\ ApiExplained =>
         \A i \in DOMAIN last.explanation :
            last.explanation[i].score # 0 =>
               last.explanation[i].direction = PushedToward(last.explanation[i].score)
    /\ Reported =>
         \A i \in DOMAIN last.lines :
            last.lines[i].importance # 0 =>
               last.lines[i].direction = PushedToward(last.lines[i].importance)

\* C2: the integer a dataset label is encoded to is the index in CLASS_NAMES
\* of the class the label stands for (0 = 'Real', 1 = 'Fake'), whatever the
\* alphabetical order of the labels.
C2_EncodingFollowsClassNames ==
    (last.op = "train" /\ detector.label_mapping.set) =>
        \A l \in DOMAIN detector.label_mapping.map :
            CLASS_NAMES[detector.label_mapping.map[l] + 1] = LabelClass(l)

\* The classifier's probability vector for the original text of the
\* explanation held in `last`.
OriginalProbs ==
    TextExplainerPipeline_predict_fn(detector.explainer_pipeline,
                                     <<last.result.text>>).val[1]

\* C3: the explanation result's predicted_class is the class name at the
\* argmax (first maximum) of the classifier's probability vector for the
\* original text, confidence is the maximum entry of that vector, and
\* probabilities maps each class name to its entry of the vector; the API
\* response carries the same three values.
C3_ResultFollowsProbabilityVector ==
    (ApiExplained \/ Reported) =>
        LET r == last.result
            probs == OriginalProbs
        IN /\ \E k \in 1..Len(probs) :
                /\ r.predicted_class = CLASS_NAMES[k]
                /\ \A j \in 1..Len(probs) : probs[j] <= probs[k]
                /\ \A j \in 1..(k - 1) : probs[j] < probs[k]
                /\ r.confidence = probs[k]
           /\ DOMAIN r.probabilities = Range(CLASS_NAMES)
           /\ \A k \in 1..Len(CLASS_NAMES) : r.probabilities[CLASS_NAMES[k]] = probs[k]
           /\ ApiExplained =>
                /\ last.prediction = r.predicted_class
                /\ last.confidence = r.confidence
                /\ last.probabilities = r.probabilities

\* /api/explain returned an explanation for a text on which 'Fake', the
\* second class, is the more probable.
C3_Witness ==
    /\ ApiExplained
    /\ last.result.predicted_class = "Fake"
    /\ last.result.confidence > Half
    /\ Len(last.explanation) >= 1

\* C4: the result of classify is self-consistent: the prediction label is
\* a class of highest value in the returned probabilities map and
\* confidence is that highest value.
C4_ClassifySelfConsistent ==
    (last.op = "classify" /\ last.err = None /\ detector.model.defect = None) =>
        /\ last.prediction \in DOMAIN last.probabilities
        /\ \A c \in DOMAIN last.probabilities :
              last.probabilities[c] <= last.probabilities[last.prediction]
        /\ last.confidence = last.probabilities[last.prediction]

\* One row per text, one column per class, every row summing to 1.
IsProbabilityMatrix(matrix, n) ==
    /\ Len(matrix) = n
    /\ \A i \in 1..Len(matrix) :
          /\ Len(matrix[i]) = Len(CLASS_NAMES)
          /\ SumSeq(matrix[i]) = Scale

\* C5: for a batch of n texts, ModelTrainer.predict_proba and
\* TextExplainerPipeline._predict_fn of a trained model return a matrix of
\* n rows and one column per class whose rows sum to 1, also when the
\* estimator has no native predict_proba and the rows are one-hot.
C5_ProbabilityMatrixShape ==
    (/\ last.op \in {"predict_proba", "predict_fn"}
     /\ detector.is_trained
     /\ detector.model.defect = None) =>
        /\ last.err = None
        /\ IsProbabilityMatrix(last.val, Len(last.texts))

\* An explanation was asked of the detector's pipeline for last.text.
ExplainAttempted ==
    /\ \/ last.op = "generate_report"
       \/ last.op = "api_explain" /\ last.status # 400
    /\ detector.explainer_pipeline.set

\* The matrix has a row count other than n or a row not summing to 1.
MatrixMalformed(matrix, n) ==
    \/ Len(matrix) # n
    \/ \E i \in 1..Len(matrix) : SumSeq(matrix[i]) # Scale

\* C6: when the classifier returns, for the text to explain, a matrix whose
\* row count differs from the number of texts or that has a row not
\* summing to 1, the explanation call fails with ClassifierContractError
\* and returns no explanation.
C6_MalformedMatrixRejected ==
    ExplainAttempted =>
        LET p == TextExplainerPipeline_predict_fn(detector.explainer_pipeline,
                                                  <<last.text>>)
        IN (p.err = None /\ MatrixMalformed(p.val, 1)) =>
              last.err = "ClassifierContractError"

\* C7: two successive explain_instance calls with the same text on the same
\* explainer draw the same perturbation masks and texts and give the same
\* attributions.
C7_SuccessiveExplainsSamePerturbations ==
    (last.op = "explain_batch" /\ last.err = None) =>
        \A i, j \in 1..Len(last.explanations) :
            last.texts[i] = last.texts[j] =>
                /\ last.explanations[i].masks = last.explanations[j].masks
                /\ last.explanations[i].texts = last.explanations[j].texts
                /\ last.explanations[i].local_exp = last.explanations[j].local_exp

\* C8: the explanation explain_batch computes for a text does not depend on
\* the texts explained before it: it is the explanation the same explainer
\* gives when that text is the only one of the batch.
C8_BatchEntryIndependentOfOthers ==
    (last.op = "explain_batch" /\ last.err = None) =>
        \A i \in 1..Len(last.explanations) :
            LET alone == LimeExplainer_explain_batch(
                             last.rs0, <<last.texts[i]>>,
                             detector.explainer_pipeline, last.num_features)
            IN /\ alone.err = None
               /\ alone.explanations[1].masks = last.explanations[i].masks
               /\ alone.explanations[1].local_exp = last.explanations[i].local_exp

\* The number of distinct words of a text.
DistinctWords(text) == Cardinality({t \in Range(text) : IsWord(t)})

\* C9: for a text with d >= 1 distinct words and a requested feature count
\* top_k >= 1, the explanation succeeds (with a well-formed classifier) and
\* word_importance has exactly min(top_k, d) entries.
C9_LengthIsMinTopKFeatures ==
    /\ ((ApiExplained \/ Reported) /\ last.num_features >= 1) =>
          Len(last.result.word_importance) =
              Min(last.num_features, DistinctWords(last.text))
    /\ (/\ ExplainAttempted
        /\ detector.model.defect = None
        /\ last.num_features >= 1
        /\ DistinctWords(last.text) >= 1) => last.err = None

\* C9 as stated, for every d: the explanation succeeds and word_importance
\* has exactly min(top_k, d) entries, also for a text without any word.
C9_LengthIsMinTopKFeaturesAnyText ==
    (/\ ExplainAttempted
     /\ detector.model.defect = None
     /\ last.num_features >= 1) =>
        /\ last.err = None
        /\ Len(last.result.word_importance) =
              Min(last.num_features, DistinctWords(last.text))

\* More features were requested than the text has distinct words, and
\* exactly d came back.
C9_Witness ==
    /\ ApiExplained
    /\ last.num_features > DistinctWords(last.text)
    /\ DistinctWords(last.text) = 2
    /\ Len(last.result.word_importance) = 2

\* Position of the first occurrence of word w in the text.
FirstOccurrence(text, w) ==
    CHOOSE i \in 1..Len(text) : text[i] = w /\ \A k \in 1..(i - 1) : text[k] # w

C11_NonPositiveTopKRejected ==
    (/\ ExplainAttempted
     /\ detector.model.defect = None
     /\ DistinctWords(last.text) >= 1
     /\ last.num_features <= 0) => last.err = "InvalidInputError"

\* C12: an explanation request for a text with zero distinct word features
\* (empty, whitespace only, no word token) fails with InvalidInputError.
C12_NoFeaturesRejected ==
    (ExplainAttempted /\ DistinctWords(last.text) = 0) =>
        last.err = "InvalidInputError"

\* The classifier returned the same probability vector for every sample of
\* the explanation.
ZeroVariance(explanation) ==
    \A i \in 1..Len(explanation.labels) :
        explanation.labels[i] = explanation.labels[1]

\* C13: when the classifier returns the same probability vector for every
\* perturbed sample, the explanation call returns a result whose predicted
\* class and confidence come from that vector, and the result carries a
\* FitDegenerateWarning annotation.
C13_DegenerateFitAnnotated ==
    ((ApiExplained \/ Reported) /\ ZeroVariance(last.result.explanation)) =>
        /\ last.result.confidence = MaxOf(last.result.explanation.labels[1])
        /\ last.result.predicted_class =
              CLASS_NAMES[ArgMax(last.result.explanation.labels[1]) + 1]
        /\ "warning" \in DOMAIN last.result
        /\ last.result.warning = "FitDegenerateWarning"

\* The explanation objects the last call returned.
Explanations ==
    IF ApiExplained \/ Reported THEN <<last.result.explanation>>
    ELSE IF last.op = "explain_batch" /\ last.err = None THEN last.explanations
    ELSE <<>>

\* C14: in every sample batch generated for an explanation, the first
\* sample is the all-ones mask, i.e. the original unperturbed text.
C14_FirstSampleIsOriginal ==
    \A e \in Range(Explanations) :
        /\ e.masks[1] = 1..Len(e.vocab)
        /\ e.texts[1] = e.text

\* An explanation of a two-word text whose batch has the original first and
\* a perturbed sample after it.
C14_Witness ==
    /\ ApiExplained
    /\ Len(last.result.explanation.vocab) = 2
    /\ last.result.explanation.masks[1] = {1, 2}
    /\ last.result.explanation.masks[2] # {1, 2}

\* C15: where the local surrogate is fitted the batch is aligned: as many
\* masks as probability vectors returned by the classifier and as similarity
\* weights; a classifier answer of another length gives no explanation.
C15_BatchAlignedAtFit ==
    /\ \A e \in Range(Explanations) :
          /\ Len(e.masks) = NumSamples
          /\ Len(e.texts) = Len(e.masks)
          /\ Len(e.labels) = Len(e.masks)
          /\ Len(e.weights) = Len(e.masks)
    /\ (/\ last.op = "explain_batch"
        /\ detector.model.defect = "short"
        /\ \E i \in 1..Len(last.texts) : DistinctWords(last.texts[i]) >= 1)
           => last.err # None

\* A batch of two explanations, each fitted on NumSamples aligned samples.
C15_Witness ==
    /\ last.op = "explain_batch" /\ last.err = None
    /\ Len(last.explanations) = 2
    /\ Len(last.explanations[2].labels) = NumSamples
    /\ Len(last.explanations[2].weights) = NumSamples

\* The number of words a mask removes.
Removed(exp, i) == Len(exp.vocab) - Cardinality(exp.masks[i])

ReadingOps ==
    {"classify", "api_classify", "api_batch_classify", "api_explain",
     "generate_report", "explain_batch"}

\* C17: classifying and explaining are free of side effects on the
\* classifier side: they leave the detector's model, vectorizer,
\* label_mapping, training_history and is_trained flag unchanged, whether
\* they return or raise.
C17_ExplainClassifyLeaveDetector ==
    [][last'.op \in ReadingOps =>
          /\ detector'.model = detector.model
          /\ detector'.feature_extractor = detector.feature_extractor
          /\ detector'.label_mapping = detector.label_mapping
          /\ detector'.training_history = detector.training_history
          /\ detector'.is_trained = detector.is_trained]_vars

\* An explain call that raised on a trained detector with its history.
C17_Witness ==
    /\ detector.is_trained /\ detector.training_history.set
    /\ last.op = "api_explain" /\ last.status = 500

\* The last call was a request to /api/classify or /api/explain.
TextRequest == last.op \in {"api_classify", "api_explain"}

\* The last call was a request to /api/batch-classify.
BatchRequest == last.op = "api_batch_classify"

\* The request was answered with HTTP 400 and success=false, and the
\* detector was not called.
Rejected400 == last.status = 400 /\ ~last.success /\ last.calls = 0

\* C18: invalid API requests are rejected with HTTP 400 and success=false
\* before the detector is invoked: for /api/classify and /api/explain a body
\* without 'text' or whose text has fewer than 10 characters after
\* stripping; for /api/batch-classify a body without 'texts', a 'texts'
\* value that is no list, an empty list, or a list of more than 100 items.
C18_InvalidRequestsRejected ==
    /\ (TextRequest /\ last.status = 400) =>
          /\ Rejected400
          /\ ~last.has_text \/ CharLen(Strip(last.raw)) < MinTextLen
    /\ (TextRequest /\ last.status # 400) =>
          /\ last.calls = 1
          /\ last.text = Strip(last.text)
          /\ CharLen(last.text) >= MinTextLen
    /\ (BatchRequest /\ ~last.body.has_texts) => Rejected400
    /\ (BatchRequest /\ ~last.body.is_list) => Rejected400
    /\ (BatchRequest /\ Len(last.body.texts) = 0) => Rejected400
    /\ (BatchRequest /\ Len(last.body.texts) > MaxApiBatch) => Rejected400

\* A list of 101 items was rejected.
C18_Witness ==
    /\ BatchRequest /\ last.body.is_list
    /\ Len(last.body.texts) = MaxApiBatch + 1
    /\ Rejected400

\* A /api/batch-classify request with a list of 1 to 100 items.
BatchOfItems ==
    /\ BatchRequest /\ last.body.has_texts /\ last.body.is_list
    /\ Len(last.body.texts) \in 1..MaxApiBatch

\* The item is not a string or is shorter than 10 characters.
InvalidItem(item) == ~item.is_str \/ CharLen(item.text) < MinTextLen

\* detector.classify raises for the text of the item.
ClassifyRaises(item) ==
    FakeNewsDetector_classify(detector, item.text).err # None

\* Entry i of the results is the entry of item i: prediction None and an
\* error message for an invalid item, the detector's prediction and
\* confidence for the others.
EntryOfItem(entry, item) ==
    /\ entry.text = item.text
    /\ IF InvalidItem(item)
       THEN /\ ~entry.prediction.set
            /\ ~entry.confidence.set
            /\ "error" \in DOMAIN entry
       ELSE /\ entry.prediction.set /\ entry.confidence.set
            /\ "error" \notin DOMAIN entry
            /\ entry.prediction.val =
                  FakeNewsDetector_classify(detector, item.text).prediction
            /\ entry.confidence.val =
                  FakeNewsDetector_classify(detector, item.text).confidence

\* One result per input item, in input order, and total is their number.
OneResultPerItem ==
    /\ last.status = 200 /\ last.success
    /\ Len(last.results) = Len(last.body.texts)
    /\ last.total = Len(last.body.texts)
    /\ \A i \in 1..Len(last.body.texts) :
          EntryOfItem(last.results[i], last.body.texts[i])

ApiRequest == last.op \in {"api_classify", "api_explain", "api_batch_classify"}

C26_SingleAndBatchAcceptSameTexts ==
    (BatchOfItems /\ last.status = 200) =>
        \A i \in 1..Len(last.body.texts) :
            last.body.texts[i].is_str =>
                /\ last.results[i].prediction.set
                      <=> CharLen(Strip(last.body.texts[i].text)) >= MinTextLen
                /\ last.results[i].prediction.set =>
                      /\ last.results[i].prediction.val =
                            ClassifyResponse(Strip(last.body.texts[i].text),
                                FakeNewsDetector_classify(detector,
                                    Strip(last.body.texts[i].text))).prediction
                      /\ last.results[i].confidence.val =
                            ClassifyResponse(Strip(last.body.texts[i].text),
                                FakeNewsDetector_classify(detector,
                                    Strip(last.body.texts[i].text))).confidence

\* C27: explain_batch returns exactly one explanation per input text, in
\* input order, each bound to its own text; if explaining a text raises
\* (RuntimeError of an uninitialised lime backend included) the whole call
\* raises and no partial list is returned.
C27_BatchOneExplanationPerText ==
    last.op = "explain_batch" =>
        IF last.err = None
        THEN /\ Len(last.explanations) = Len(last.texts)
             /\ \A i \in 1..Len(last.texts) :
                   /\ last.explanations[i].text = last.texts[i]
                   /\ last.explanations[i].vocab = Vocabulary(last.texts[i])
                   /\ last.explanations[i].texts[1] = last.texts[i]
             /\ detector.explainer_pipeline.model.defect # "short"
        ELSE last.explanations = <<>>

\* A batch of two different texts explained in order.
C27_Witness ==
    /\ last.op = "explain_batch" /\ last.err = None
    /\ Len(last.texts) = 2 /\ last.texts[1] # last.texts[2]
    /\ last.explanations[1].text = last.texts[1]
    /\ last.explanations[2].text = last.texts[2]

-----------------------------------------------------------------------------
(* The life cycle: training, loading and the calls that need them *)

\* The detector raises ValueError where it must while it is untrained or has
\* no explainer pipeline.
UntrainedRaises ==
    /\ ~detector.is_trained =>
          /\ \A text \in LifecycleTexts :
                /\ FakeNewsDetector_predict(detector, <<text>>).err = "ValueError"
                /\ FakeNewsDetector_predict_proba(detector, <<text>>).err = "ValueError"
                /\ FakeNewsDetector_classify(detector, text).err = "ValueError"
          /\ FakeNewsDetector_save(detector, disk).err = "ValueError"
    /\ ~detector.explainer_pipeline.set =>
          \A text \in LifecycleTexts :
              FakeNewsDetector_explain(detector, random_state, text,
                                       DefaultNumFeatures).err = "ValueError"

\* The call that has returned produced a prediction or an explanation.
Produced ==
    \/ last.op = "classify" /\ last.err = None
    \/ last.op \in {"api_classify", "api_explain"} /\ last.status = 200

\* is_trained becomes true only in a train or a load that completes.
TrainedOnlyByCompletion ==
    (~detector.is_trained /\ detector'.is_trained) =>
        /\ last'.op \in {"train", "load", "load_model"}
        /\ last'.err = None
        /\ last'.op = "load_model" => last'.ok

\* C21: no prediction or explanation comes from a detector that has not
\* completed a train or a load.  While is_trained is false, predict,
\* predict_proba, classify and save raise ValueError; while there is no
\* explainer pipeline, explain raises ValueError; is_trained is true only
\* with the model and the explainer pipeline set, also after a train or a
\* load that raised part-way; and is_trained turns true only when a train
\* or a load completes.
C21_NothingBeforeTrainOrLoad ==
    /\ [](detector # NoDetector =>
            /\ UntrainedRaises
            /\ detector.is_trained =>
                  detector.model.set /\ detector.explainer_pipeline.set
            /\ Produced => detector.is_trained)
    /\ [][TrainedOnlyByCompletion]_vars

\* A load that raised part-way has left a model in a detector that is not
\* trained, and classify has raised ValueError on it.
C21_Witness ==
    /\ last.op = "classify" /\ last.err = "ValueError"
    /\ ~detector.is_trained /\ detector.model.set
    /\ ~detector.explainer_pipeline.set

\* compare_models has returned on a detector that was trained and whose
\* vectorizer had the vocabulary its model was fitted with.
ComparedOnTrained ==
    /\ last.op = "compare_models"
    /\ last.before.is_trained
    /\ last.before.model.is_trained
    /\ last.before.model.defect = None
    /\ last.before.feature_extractor.vocab = FittedVocabulary
    /\ last.before.explainer_pipeline.vectorizer.vocab = FittedVocabulary

\* C22: on a trained detector compare_models leaves the state used for
\* prediction as it was: the vectorizer of classify and of explain still
\* has the vocabulary the model was fitted with, and model and is_trained
\* are unchanged.
C22_CompareModelsKeepsPredictionState ==
    ComparedOnTrained =>
        /\ detector.feature_extractor.vocab = FittedVocabulary
        /\ detector.explainer_pipeline.vectorizer.vocab = FittedVocabulary
        /\ detector.model = last.before.model
        /\ detector.is_trained = last.before.is_trained

\* C23: load is all-or-nothing.  When load raises, at whichever file, the
\* detector's model, vectorizer, model_type, label_mapping, explainer
\* pipeline and is_trained are what they were before the call.
C23_LoadAllOrNothing ==
    (last.op = "load" /\ last.err # None) =>
        /\ detector.model = last.before.model
        /\ detector.feature_extractor = last.before.feature_extractor
        /\ detector.model_type = last.before.model_type
        /\ detector.label_mapping = last.before.label_mapping
        /\ detector.is_trained = last.before.is_trained
        /\ detector.explainer_pipeline.set = last.before.explainer_pipeline.set
        /\ detector.explainer_pipeline.set =>
              /\ detector.explainer_pipeline.model =
                    last.before.explainer_pipeline.model
              /\ detector.explainer_pipeline.vectorizer =
                    last.before.explainer_pipeline.vectorizer

\* save has written the directory from the trained detector.
Saved == last.op = "save" /\ last.err = None

\* C24: save followed by load on a fresh detector gives a trained detector
\* of the same model_type, with the same model and vectorizer and with a
\* label_mapping equal to the saved detector's: the same keys mapped to the
\* same integers.
C24_SaveLoadRoundTrip ==
    Saved =>
        \A mt \in ModelTypes :
            \A r \in {FakeNewsDetector_load(FreshDetector(mt), disk)} :
                /\ r.err = None
                /\ r.self.is_trained
                /\ r.self.model_type = detector.model_type
                /\ r.self.model = detector.model
                /\ r.self.feature_extractor = detector.feature_extractor
                /\ r.self.label_mapping = detector.label_mapping

\* The model is not loaded: the module global is None, or it is a detector
\* that is not trained.
ModelNotLoaded == detector = NoDetector \/ ~detector.is_trained

\* /api/classify or /api/explain has answered a request with a valid text.
ValidTextAnswered ==
    last.op \in {"api_classify", "api_explain"} /\ last.status # 400

\* C25: while the model is not loaded, /api/health reports model_loaded =
\* false and /api/classify and /api/explain answer a valid text with
\* success = false; a response with success = true and a prediction comes
\* only from a detector whose load has completed.
C25_NoAnswerWithoutModel ==
    /\ (last.op = "api_health" /\ ModelNotLoaded) => ~last.model_loaded
    /\ (ValidTextAnswered /\ ModelNotLoaded) =>
          ~last.success /\ last.status = 500
    /\ (ValidTextAnswered /\ last.success) =>
          /\ last.prediction \in Range(CLASS_NAMES)
          /\ detector # NoDetector
          /\ detector.is_trained
          /\ detector.model.set
          /\ detector.feature_extractor.is_fitted
          /\ detector.explainer_pipeline.set

\* load_model has failed part-way and left a detector that holds a model
\* but is not trained; /api/classify has answered a valid text with 500.
C25_Witness ==
    /\ last.op = "api_classify" /\ last.status = 500 /\ ~last.success
    /\ detector # NoDetector /\ ~detector.is_trained /\ detector.model.set

=============================================================================
